---- MODULE Spec2Model ----
(***************************************************************************)
(* Wallet ledger of next_backend: the Django request handlers of           *)
(* wallet/views.py, the TransactionService of                              *)
(* wallet/services/transactions.py and the webhook signature check of      *)
(* wallet/utils.py, run by concurrent request workers against one          *)
(* transactional database.                                                 *)
(*                                                                         *)
(* Money is counted in integer minor units.  A database transaction        *)
(* (transaction.atomic) is modelled by the writes a worker has pending,    *)
(* which become visible at commit and are dropped at rollback.             *)
(*                                                                         *)
(* Spec is the wallet views over two registered wallets; FairSpec adds the *)
(* fairness of a dispatched view.  SpecRegister is RegisterView from an    *)
(* empty database.  SpecStore is the operations of the models themselves   *)
(* (Wallet.create_transaction and the deletions, with the on_delete rules  *)
(* of wallet/models.py), which no view calls.  FairViews is Spec with the  *)
(* fairness of every step but the provider's answer.  SpecReference is the *)
(* text of the references TransactionService makes.                        *)
(***************************************************************************)
EXTENDS Integers, Sequences, FiniteSets, Bags, TLC

\* ------------------------------------------------------------------ bounds
MaxReqs == 3        \* requests received in one behaviour
MaxAmount == 1      \* largest amount a request may carry
NumSuffixes == 1    \* distinct values of the random part of a reference
MaxSeed == 31       \* values of uuid4().hex, as texts, are numbered 0..MaxSeed

Procs == {1, 2}                       \* concurrent request workers
Wallets == {"w1", "w2"}               \* wallet_id of the registered wallets
WalletIds == Wallets \cup {"w0"}      \* "w0" names no wallet
Amounts == {0 - 1} \cup (1..MaxAmount)  \* a non-positive amount and the positive ones
WebhookRefs == {<<"TEST-DEP", 1>>, <<"AIR", 1>>}  \* references a sender may put in a webhook
Suffixes == 1..NumSuffixes            \* values of uuid4().hex[:8]
NoWallet == "none"

VARIABLES
    balance,    \* Wallet.balance of every wallet row, as committed
    txns,       \* the committed Transaction rows (a bag: rows have no order)
    req,        \* per worker: the request it handles and the view's locals
    tx,         \* per worker: the rows its open atomic block has inserted
    nreq,       \* requests received so far
    users,      \* the committed User rows
    wallet_rows,  \* the committed Wallet rows, each with the user that owns it
    reg,        \* per worker: the registration it handles
    call        \* the latest call that makes a reference, and the reference made
vars == <<balance, txns, req, tx, nreq, users, wallet_rows, reg, call>>

\* the tables and locals of registration, and the record of the reference
\* generator, which the wallet views leave alone
avars == <<users, wallet_rows, reg, call>>

\* --------------------------------------------------------- webhook verifier
WebhookSecret == 5

WalletIndex(w) == CASE w = "w0" -> 0 [] w = "w1" -> 1 [] OTHER -> 2
RefIndex(r) == IF r = <<"TEST-DEP", 1>> THEN 0 ELSE 1

\* the raw request bytes of a webhook body, as one number
RawBody(b) ==
    ((WalletIndex(b.wallet_id) * (MaxAmount + 2) + (b.amount + 1)) * 2
        + RefIndex(b.reference)) * 2 + (IF b.valid THEN 1 ELSE 0)

\* code point of a hexadecimal digit ('0'..'9', 'a'..'f')
HexChar(n) == IF n < 10 THEN 48 + n ELSE 87 + n

\* hmac.new(key, payload, sha256).hexdigest(): a keyed digest without
\* collisions on the payloads of the model, printed as hexadecimal text
HmacHexdigest(key, payload) ==
    LET d == (payload * 7 + key * 13) % 256
    IN  <<HexChar(d \div 16), HexChar(d % 16)>>

IsAscii(s) == \A i \in 1..Len(s) : s[i] < 128

\* hmac.compare_digest on two str: TypeError unless both are ASCII
compare_digest(a, b) ==
    IF IsAscii(a) /\ IsAscii(b)
    THEN (IF a = b THEN "True" ELSE "False")
    ELSE "TypeError"

verify_webhook_signature(payload, received_signature) ==
    compare_digest(HmacHexdigest(WebhookSecret, payload), received_signature)

\* ------------------------------------------------------------- ledger store
StatusChoices == {"PENDING", "COMPLETED", "FAILED", "REVERSED"}

Row(w, a, t, s, r, rcp) ==
    [wallet |-> w, amount |-> a, transaction_type |-> t, status |-> s,
     reference |-> r, recipient_wallet |-> rcp]

NoTx == [open |-> FALSE, rows |-> <<>>]

\* the store without the unique index on reference
ReferenceExists_NoUnique(r) == FALSE

\* unique=True on Transaction.reference: a committed row holds the reference
ReferenceExists(r) == \E t \in BagToSet(txns) : t.reference = r

\* another worker's open transaction has inserted the reference (the insert
\* waits for that transaction to end)
ReferenceLocked(p, r) ==
    \E q \in Procs \ {p} : \E i \in 1..Len(tx[q].rows) : tx[q].rows[i].reference = r

\* ------------------------------------------------------ reference generator
\* f"{prefix}-{uuid.uuid4().hex[:8].upper()}": the pair of the prefix and the
\* random part
generate_reference(prefix, suffix) == <<prefix, suffix>>

ServicePrefix(service_type) == IF service_type = "AIRTIME" THEN "AIR" ELSE "DAT"

\* -------------------------------------------------------------- the workers
Idle ==
    [kind |-> "idle", pc |-> "idle", wallet |-> NoWallet, akind |-> "int",
     amount |-> 0, ref |-> <<"", 0>>, snap |-> 0, recipient |-> NoWallet,
     verify |-> "n/a", success |-> "", code |-> 0, body |-> "", exc |-> ""]

InFlight(p) == req[p].pc \notin {"idle", "done"}

\* worker p can take a request
Free(p) == ~InFlight(p) /\ nreq < MaxReqs

\* the view returns: of the request only the response is left, with the
\* exception that ended it, if one did (a withdrawal or transfer response is
\* kept with what was asked for and the balance the view had loaded)
Respond(r, code, body, exc) ==
    LET keep == r.kind \in {"withdraw", "transfer"}
    IN  [Idle EXCEPT !.pc = "done", !.kind = r.kind, !.verify = r.verify,
                     !.wallet = IF keep THEN r.wallet ELSE NoWallet,
                     !.amount = IF keep THEN r.amount ELSE 0,
                     !.snap = IF keep THEN r.snap ELSE 0,
                     !.recipient = IF keep THEN r.recipient ELSE NoWallet,
                     !.success = r.success,
                     !.code = code, !.body = body, !.exc = exc]

\* ------------------------------------------------------ users and wallets
UserIds == {"u1", "u2"}               \* the users that may register
NoUser == "none"

\* a Wallet row: its OneToOneField user, its wallet_id and its balance
\* (default=0.00)
WalletRow(user, wallet_id) == [user |-> user, wallet_id |-> wallet_id, balance |-> 0]

\* the wallet of user "u1" is "w1", that of "u2" is "w2"
OwnerOf(wallet_id) == IF wallet_id = "w1" THEN "u1" ELSE "u2"

RegIdle == [pc |-> "idle", user |-> NoUser, stage |-> "", code |-> 0, exc |-> ""]

\* no reference has been made
NoCall == [op |-> "", service_type |-> "", supplied |-> <<>>, seed |-> 0,
           reference |-> <<>>]

\* both users have registered and no request has been received
Init ==
    /\ balance = [w \in Wallets |-> 0]
    /\ txns = EmptyBag
    /\ req = [p \in Procs |-> Idle]
    /\ tx = [p \in Procs |-> NoTx]
    /\ nreq = 0
    /\ users = UserIds
    /\ wallet_rows = {WalletRow(OwnerOf(w), w) : w \in Wallets}
    /\ reg = [p \in Procs |-> RegIdle]
    /\ call = NoCall

\* ------------------------------------------------------ DepositWebhookView
\* the bodies a sender may post: every well-formed one, and one that fails
\* json.loads or the serializer (no timestamp, say) though it names a wallet
\* that exists and a positive amount
Bodies ==
    [valid : {TRUE}, reference : WebhookRefs, amount : Amounts, wallet_id : WalletIds]
    \cup {[valid |-> FALSE, reference |-> <<"TEST-DEP", 1>>, amount |-> 1,
            wallet_id |-> "w1"]}

\* a serializer that accepts every body
is_valid_Always(b) == TRUE

\* json.loads(raw_body) followed by serializer.is_valid(raise_exception=True):
\* FALSE stands for the exception either of them raises
is_valid(b) == b.valid

\* signatures a sender can attach to a body: the provider's, the provider's
\* for another body (tampered payload), one made with another key (forged),
\* none (header missing), and one holding a non-ASCII character
Signatures(b) ==
    { HmacHexdigest(WebhookSecret, RawBody(b)),
      HmacHexdigest(WebhookSecret, RawBody([b EXCEPT !.amount = MaxAmount])),
      HmacHexdigest(WebhookSecret + 1, RawBody(b)),
      <<>>,
      <<233>> }

WebhookReceive(p, b, sig) ==
    LET v == verify_webhook_signature(RawBody(b), sig)
        r == [Idle EXCEPT !.kind = "webhook", !.verify = v]
    IN  /\ Free(p)
        /\ nreq' = nreq + 1
        /\ req' = [req EXCEPT ![p] =
              CASE v = "TypeError" -> Respond(r, 400, "TypeError", "TypeError")
                [] v = "False" -> Respond(r, 403, "Invalid signature", "")
                [] OTHER ->
                     IF ~is_valid(b) THEN Respond(r, 400, "ValidationError", "ValidationError")
                     ELSE [r EXCEPT !.pc = "wh_get", !.wallet = b.wallet_id,
                                    !.amount = b.amount,
                                    !.ref = b.reference]]
        /\ UNCHANGED <<balance, txns, tx>>
        /\ UNCHANGED avars

WebhookGetWallet(p) ==
    /\ req[p].pc = "wh_get"
    /\ req' = [req EXCEPT ![p] =
          IF req[p].wallet \in Wallets
          THEN [@ EXCEPT !.pc = "dep_insert", !.snap = balance[req[p].wallet]]
          ELSE Respond(@, 404, "Wallet not found", "DoesNotExist")]
    /\ UNCHANGED <<balance, txns, tx, nreq>>
    /\ UNCHANGED avars

\* -------------------------------------------------------- transaction.atomic
RECURSIVE SeqToBag(_)
SeqToBag(rows) ==
    IF rows = <<>> THEN EmptyBag ELSE SetToBag({Head(rows)}) (+) SeqToBag(Tail(rows))

\* Transaction.objects.create inside the block
Begin(t, row) == [t EXCEPT !.open = TRUE, !.rows = Append(@, row)]

\* a commit that also marks every row already stored as FAILED
SaveAndCommit_Restatus(p, wallet, new_balance) ==
    /\ txns' = SetToBag({[t EXCEPT !.status = "FAILED"] : t \in BagToSet(txns)})
                   (+) SeqToBag(tx[p].rows)
    /\ balance' = [balance EXCEPT ![wallet] = new_balance]
    /\ tx' = [tx EXCEPT ![p] = NoTx]

\* a commit that also rewrites the amount of every row already stored
SaveAndCommit_Reamount(p, wallet, new_balance) ==
    /\ txns' = SetToBag({[t EXCEPT !.amount = new_balance] : t \in BagToSet(txns)})
                   (+) SeqToBag(tx[p].rows)
    /\ balance' = [balance EXCEPT ![wallet] = new_balance]
    /\ tx' = [tx EXCEPT ![p] = NoTx]

\* wallet.save() as the last statement of the block, and the commit: the
\* inserted rows and the wallet row become visible together
SaveAndCommit(p, wallet, new_balance) ==
    /\ txns' = txns (+) SeqToBag(tx[p].rows)
    /\ balance' = [balance EXCEPT ![wallet] = new_balance]
    /\ tx' = [tx EXCEPT ![p] = NoTx]

\* a block left by an exception after its wallet.save() reached the database
\* outside the block: the rows are dropped and the balance stays written
Rollback_KeepBalance(p) ==
    /\ tx' = [tx EXCEPT ![p] = NoTx]
    /\ balance' = [balance EXCEPT ![req[p].wallet] = req[p].snap - req[p].amount]
    /\ UNCHANGED txns

\* leaving the atomic block by an exception: none of its writes is kept
Rollback(p) ==
    /\ tx' = [tx EXCEPT ![p] = NoTx]
    /\ UNCHANGED <<balance, txns>>

\* ------------------------------------------ TransactionService.create_deposit
DepositRow(wallet, amount, reference) ==
    Row(wallet, amount, "DEPOSIT", "SUCCESS", reference, NoWallet)

\* wallet.balance += amount, on the wallet object the view has loaded
DepositBalance(snap, amount) == snap + amount

DepositInsert(p) ==
    /\ req[p].pc = "dep_insert"
    /\ ~ReferenceLocked(p, req[p].ref)
    /\ IF ReferenceExists(req[p].ref)
       THEN /\ req' = [req EXCEPT ![p] = Respond(@, 400, "IntegrityError", "IntegrityError")]
            /\ UNCHANGED tx
       ELSE /\ tx' = [tx EXCEPT ![p] =
                  Begin(@, DepositRow(req[p].wallet, req[p].amount, req[p].ref))]
            /\ req' = [req EXCEPT ![p].pc = "dep_save"]
    /\ UNCHANGED <<balance, txns, nreq>>
    /\ UNCHANGED avars

DepositSave(p) ==
    /\ req[p].pc = "dep_save"
    /\ SaveAndCommit(p, req[p].wallet, DepositBalance(req[p].snap, req[p].amount))
    /\ req' = [req EXCEPT ![p] = Respond(@, 200, "transaction", "")]
    /\ UNCHANGED nreq
    /\ UNCHANGED avars

\* ------------------------------------------------- AirtimeView and DataView
\* the views without their sufficiency test
BalanceLess_Never(snap, akind, amount) ==
    IF akind \in {"str", "none"} THEN "TypeError" ELSE "False"

\* wallet.balance < amount, amount being whatever JSON value the request held
BalanceLess(snap, akind, amount) ==
    IF akind \in {"str", "none"} THEN "TypeError"
    ELSE IF snap < amount THEN "True" ELSE "False"

VasInputs == ({"int"} \X Amounts) \cup {<<"str", 1>>, <<"float", 1>>, <<"none", 0>>}

VasPost(p, service_type, w, akind, amount) ==
    LET r == [Idle EXCEPT !.kind = service_type, !.wallet = w, !.akind = akind,
                          !.amount = amount, !.snap = balance[w]]
        lt == BalanceLess(balance[w], akind, amount)
    IN  /\ Free(p)
        /\ nreq' = nreq + 1
        /\ req' = [req EXCEPT ![p] =
              CASE lt = "TypeError" -> Respond(r, 500, "Server Error", "TypeError")
                [] lt = "True" -> Respond(r, 400, "Insufficient balance", "")
                [] OTHER -> [r EXCEPT !.pc = "vas_call"]]
        /\ UNCHANGED <<balance, txns, tx>>
        /\ UNCHANGED avars

\* ---------------------------------------------------------- PayscribeService
\* what the provider does with a request: it answers 2xx with a JSON body,
\* answers 2xx with a body that is not JSON, answers with an error status, or
\* the connection fails. Each of the last three raises, inside the try block,
\* the exception it is named after
ProviderOutcomes == {"ok", "JSONDecodeError", "HTTPError", "ConnectionError"}

\* the exceptions of requests.post, raise_for_status and response.json that
\* are requests.exceptions.RequestException
RequestException == {"JSONDecodeError", "HTTPError", "ConnectionError"}

\* what a PayscribeService call gives its caller: the exception that left it
\* ("" for none) or the pair (success, payload)
Returned(raised, success, payload) ==
    [raised |-> raised, success |-> success, payload |-> payload]

\* the client without its except clause
_make_request_NoExcept(outcome) ==
    IF outcome = "ok" THEN Returned("", TRUE, "json")
    ELSE Returned(outcome, FALSE, "")

\* return True, response.json(); except RequestException as e: return False, str(e)
_make_request(outcome) ==
    CASE outcome = "ok" -> Returned("", TRUE, "json")
      [] outcome \in RequestException -> Returned("", FALSE, outcome)
      [] OTHER -> Returned(outcome, FALSE, "")

\* the view creating the transaction whatever the provider answered
IfSuccess_Always(success) == TRUE

\* if success: ... create_vas_transaction
IfSuccess(success) == success

\* success, response = PayscribeService.buy_airtime(...) / buy_data(...), and
\* the branch on success; an exception leaving the call is not handled
VasProvider(p, outcome) ==
    LET r == _make_request(outcome)
        s == [req[p] EXCEPT !.success = IF r.success THEN "True" ELSE "False"]
    IN  /\ req[p].pc = "vas_call"
        /\ req' = [req EXCEPT ![p] =
              CASE r.raised # "" -> Respond(s, 500, "Server Error", r.raised)
                [] IfSuccess(r.success) -> [s EXCEPT !.pc = "vas_insert"]
                [] OTHER -> Respond(s, 400, r.payload, "")]
        /\ UNCHANGED <<balance, txns, tx, nreq>>
        /\ UNCHANGED avars

\* ---------------------------------- TransactionService.create_vas_transaction
VasRow(wallet, amount, service_type, reference) ==
    Row(wallet, amount, service_type, "SUCCESS", reference, NoWallet)

\* wallet.balance -= amount, on the wallet object the view has loaded
VasBalance(snap, amount) == snap - amount

VasInsert(p, suffix) ==
    LET reference == generate_reference(ServicePrefix(req[p].kind), suffix)
    IN  /\ req[p].pc = "vas_insert"
        /\ ~ReferenceLocked(p, reference)
        /\ IF ReferenceExists(reference)
           THEN /\ req' = [req EXCEPT ![p] =
                      Respond(@, 500, "Server Error", "IntegrityError")]
                /\ UNCHANGED tx
           ELSE /\ tx' = [tx EXCEPT ![p] =
                      Begin(@, VasRow(req[p].wallet, req[p].amount, req[p].kind,
                                      reference))]
                /\ req' = [req EXCEPT ![p].pc = "vas_save"]
        /\ UNCHANGED <<balance, txns, nreq>>
        /\ UNCHANGED avars

VasSave(p) ==
    /\ req[p].pc = "vas_save"
    /\ IF req[p].akind = "float"
       THEN \* Decimal -= float raises TypeError inside the atomic block
            /\ Rollback(p)
            /\ req' = [req EXCEPT ![p] = Respond(@, 500, "Server Error", "TypeError")]
       ELSE /\ SaveAndCommit(p, req[p].wallet, VasBalance(req[p].snap, req[p].amount))
            /\ req' = [req EXCEPT ![p] = Respond(@, 200, "transaction", "")]
    /\ UNCHANGED nreq
    /\ UNCHANGED avars

\* a database error inside an atomic block: the block is rolled back and the
\* exception reaches the view (the webhook view catches it, the VAS views do
\* not)
TxAbort(p) ==
    /\ tx[p].open
    /\ Rollback(p)
    /\ req' = [req EXCEPT ![p] =
          IF req[p].kind = "webhook" THEN Respond(@, 400, "OperationalError", "OperationalError")
          ELSE Respond(@, 500, "Server Error", "OperationalError")]
    /\ UNCHANGED nreq
    /\ UNCHANGED avars

\* ------------------------------------------------------------ WithdrawalView
\* WithdrawalSerializer / TransferSerializer: amount has min_value=0.01
AmountValid(amount) == amount >= 1

\* the outcome of a TransactionService call: the exception it raised ("" for
\* none), the rows it made durable and the balances it left
Outcome(raised, rows, bal) == [raised |-> raised, rows |-> rows, bal |-> bal]

\* TransactionService has no attribute create_withdrawal
create_withdrawal(wallet, amount) == Outcome("AttributeError", <<>>, balance)

WithdrawalPost(p, w, amount) ==
    LET r == [Idle EXCEPT !.kind = "withdraw", !.wallet = w, !.amount = amount,
                          !.snap = balance[w]]
    IN  /\ Free(p)
        /\ nreq' = nreq + 1
        /\ req' = [req EXCEPT ![p] =
              IF AmountValid(amount) THEN [r EXCEPT !.pc = "wd_create"]
              ELSE Respond(r, 500, "Withdrawal processing failed", "ValidationError")]
        /\ UNCHANGED <<balance, txns, tx>>
        /\ UNCHANGED avars

\* the view's try block from the create_withdrawal call on, and its handlers
WithdrawalCreate(p) ==
    LET o == create_withdrawal(req[p].wallet, req[p].amount)
    IN  /\ req[p].pc = "wd_create"
        /\ txns' = txns (+) SeqToBag(o.rows)
        /\ balance' = o.bal
        /\ req' = [req EXCEPT ![p] =
              CASE o.raised = "" -> [@ EXCEPT !.pc = "wd_call"]
                [] o.raised = "ValueError" -> Respond(@, 400, "ValueError", "ValueError")
                [] OTHER -> Respond(@, 500, "Withdrawal processing failed", o.raised)]
        /\ UNCHANGED <<tx, nreq>>
        /\ UNCHANGED avars

\* -------------------------------------------------------------- TransferView
\* a create_transfer that debits the sender and stops
create_transfer_DebitOnly(sender_wallet, recipient_wallet, amount) ==
    Outcome("", <<Row(sender_wallet, amount, "TRANSFER", "COMPLETED",
                      generate_reference("TRF", 1), recipient_wallet)>>,
            [balance EXCEPT ![sender_wallet] = @ - amount])

\* TransactionService has no attribute create_transfer
create_transfer(sender_wallet, recipient_wallet, amount) ==
    Outcome("AttributeError", <<>>, balance)

TransferPost(p, w, amount, recipient_wallet_id) ==
    LET r == [Idle EXCEPT !.kind = "transfer", !.wallet = w, !.amount = amount,
                          !.snap = balance[w], !.recipient = recipient_wallet_id]
    IN  /\ Free(p)
        /\ nreq' = nreq + 1
        /\ req' = [req EXCEPT ![p] =
              IF AmountValid(amount) THEN [r EXCEPT !.pc = "tr_create"]
              ELSE Respond(r, 500, "Transfer processing failed", "ValidationError")]
        /\ UNCHANGED <<balance, txns, tx>>
        /\ UNCHANGED avars

\* the view without its self-transfer test
IsSelfTransfer_Never(sender_wallet, recipient_wallet) == FALSE

\* sender_wallet == recipient_wallet: two model instances are equal when
\* they are the same row
IsSelfTransfer(sender_wallet, recipient_wallet) == sender_wallet = recipient_wallet

\* a view that holds its sender's wallet while another transfer is under way
\* and waits for it: two transfers under way wait for each other
TransferCreate_HoldAndWait(p) ==
    /\ req[p].pc = "tr_create"
    /\ \A q \in Procs \ {p} : req[q].pc # "tr_create"
    /\ req' = [req EXCEPT ![p] =
          Respond(@, 500, "Transfer processing failed", "AttributeError")]
    /\ UNCHANGED <<balance, txns, tx, nreq>>
    /\ UNCHANGED avars

\* the inner try block of the view and the handlers around it
TransferCreate(p) ==
    LET o == create_transfer(req[p].wallet, req[p].recipient, req[p].amount)
        go == /\ req[p].recipient \in Wallets
              /\ ~IsSelfTransfer(req[p].wallet, req[p].recipient)
    IN  /\ req[p].pc = "tr_create"
        /\ txns' = IF go THEN txns (+) SeqToBag(o.rows) ELSE txns
        /\ balance' = IF go THEN o.bal ELSE balance
        /\ req' = [req EXCEPT ![p] =
              CASE req[p].recipient \notin Wallets ->
                     Respond(@, 404, "Recipient wallet not found", "DoesNotExist")
                [] IsSelfTransfer(req[p].wallet, req[p].recipient) ->
                     Respond(@, 400, "Cannot transfer to your own wallet", "")
                [] o.raised = "" -> Respond(@, 200, "success", "")
                [] o.raised = "ValueError" -> Respond(@, 400, "ValueError", "ValueError")
                [] OTHER -> Respond(@, 500, "Transfer processing failed", o.raised)]
        /\ UNCHANGED <<tx, nreq>>
        /\ UNCHANGED avars

\* ---------------------------------------------------------------- WalletView
\* wallet = Wallet.objects.get(user=request.user); the serialized wallet is
\* returned
WalletGet(p, w) ==
    /\ Free(p)
    /\ nreq' = nreq + 1
    /\ req' = [req EXCEPT ![p] =
          Respond([Idle EXCEPT !.kind = "wallet"], 200, "wallet", "")]
    /\ UNCHANGED <<balance, txns, tx>>
    /\ UNCHANGED avars

\* ----------------------------------------------------------- specification
Next ==
    \/ \E p \in Procs, w \in Wallets : WalletGet(p, w)
    \/ \E p \in Procs, b \in Bodies : \E sig \in Signatures(b) : WebhookReceive(p, b, sig)
    \/ \E p \in Procs : WebhookGetWallet(p)
    \/ \E p \in Procs : DepositInsert(p)
    \/ \E p \in Procs : DepositSave(p)
    \/ \E p \in Procs, st \in {"AIRTIME", "DATA"}, w \in Wallets, a \in VasInputs :
          VasPost(p, st, w, a[1], a[2])
    \/ \E p \in Procs, o \in ProviderOutcomes : VasProvider(p, o)
    \/ \E p \in Procs, s \in Suffixes : VasInsert(p, s)
    \/ \E p \in Procs : VasSave(p)
    \/ \E p \in Procs : TxAbort(p)
    \/ \E p \in Procs, w \in Wallets, a \in Amounts : WithdrawalPost(p, w, a)
    \/ \E p \in Procs : WithdrawalCreate(p)
    \/ \E p \in Procs, w \in Wallets, a \in Amounts, r \in WalletIds :
          TransferPost(p, w, a, r)
    \/ \E p \in Procs : TransferCreate(p)

Spec == Init /\ [][Next]_vars

\* a view that has been dispatched runs to its response: the step of a
\* transfer that is under way is taken
FairSpec == Spec /\ \A p \in Procs : WF_vars(TransferCreate(p))

\* every step that is the server's own is taken. The step out of the provider
\* call is the provider's answer: requests.post is called without a timeout,
\* so no step of the server ends the wait for it
FairViews ==
    /\ Spec
    /\ \A p \in Procs :
          /\ WF_vars(WebhookGetWallet(p))
          /\ WF_vars(DepositInsert(p))
          /\ WF_vars(DepositSave(p))
          /\ WF_vars(\E s \in Suffixes : VasInsert(p, s))
          /\ WF_vars(VasSave(p))
          /\ WF_vars(WithdrawalCreate(p))
          /\ WF_vars(TransferCreate(p))

\* -------------------------------------------------------------- RegisterView
\* the wallet views' variables, which registration leaves alone
wvars == <<balance, txns, req, tx, nreq>>

\* values of f"NEXA{str(uuid.uuid4())[:8].upper()}"
NewWalletIds == Wallets

RegInFlight(p) == reg[p].pc \notin {"idle", "done"}

\* the view returns, or an exception leaves it
RegRespond(r, stage, code, exc) ==
    [RegIdle EXCEPT !.pc = "done", !.user = r.user, !.stage = stage,
                    !.code = code, !.exc = exc]

\* another worker's open atomic block has inserted the user (the unique
\* index makes the insert wait for that block to end)
UserLocked(p, u) ==
    \E q \in Procs \ {p} : reg[q].pc = "reg_wallet" /\ reg[q].user = u

\* serializer.is_valid(raise_exception=True): the unique fields of the user
\* are tested against the committed rows
RegisterPost(p, u) ==
    /\ ~RegInFlight(p)
    /\ reg' = [reg EXCEPT ![p] =
          IF u \in users
          THEN RegRespond([RegIdle EXCEPT !.user = u], "validate", 400, "ValidationError")
          ELSE [RegIdle EXCEPT !.pc = "reg_user", !.user = u]]
    /\ UNCHANGED <<users, wallet_rows>>
    /\ UNCHANGED <<wvars, call>>

\* user = serializer.save(), the first statement of the atomic block
RegisterCreateUser(p) ==
    /\ reg[p].pc = "reg_user"
    /\ ~UserLocked(p, reg[p].user)
    /\ reg' = [reg EXCEPT ![p] =
          IF reg[p].user \in users
          THEN RegRespond(@, "user", 500, "IntegrityError")
          ELSE [@ EXCEPT !.pc = "reg_wallet"]]
    /\ UNCHANGED <<users, wallet_rows>>
    /\ UNCHANGED <<wvars, call>>

\* registration without transaction.atomic: the user inserted before the
\* failure stays
RegisterRollback_NoAtomic(p) ==
    /\ users' = users \cup {reg[p].user}
    /\ wallet_rows' = wallet_rows

\* an exception leaves the atomic block: the inserted user is dropped
RegisterRollback(p) ==
    /\ users' = users
    /\ wallet_rows' = wallet_rows

\* Wallet.objects.create(user=user, wallet_id=...) and the end of the block:
\* the user and the wallet are committed together, or the unique index on
\* wallet_id refuses the wallet and the block is rolled back
RegisterCreateWallet(p, wallet_id) ==
    /\ reg[p].pc = "reg_wallet"
    /\ IF \E w \in wallet_rows : w.wallet_id = wallet_id
       THEN /\ RegisterRollback(p)
            /\ reg' = [reg EXCEPT ![p] = RegRespond(@, "wallet", 500, "IntegrityError")]
       ELSE /\ users' = users \cup {reg[p].user}
            /\ wallet_rows' = wallet_rows \cup {WalletRow(reg[p].user, wallet_id)}
            /\ reg' = [reg EXCEPT ![p] = RegRespond(@, "wallet", 201, "")]
    /\ UNCHANGED <<wvars, call>>

\* a database error inside the atomic block
RegisterAbort(p) ==
    /\ reg[p].pc = "reg_wallet"
    /\ RegisterRollback(p)
    /\ reg' = [reg EXCEPT ![p] = RegRespond(@, "wallet", 500, "OperationalError")]
    /\ UNCHANGED <<wvars, call>>

\* no user has registered
InitRegister ==
    /\ balance = [w \in Wallets |-> 0]
    /\ txns = EmptyBag
    /\ req = [p \in Procs |-> Idle]
    /\ tx = [p \in Procs |-> NoTx]
    /\ nreq = 0
    /\ users = {}
    /\ wallet_rows = {}
    /\ reg = [p \in Procs |-> RegIdle]
    /\ call = NoCall

NextRegister ==
    \/ \E p \in Procs, u \in UserIds : RegisterPost(p, u)
    \/ \E p \in Procs : RegisterCreateUser(p)
    \/ \E p \in Procs, w \in NewWalletIds : RegisterCreateWallet(p, w)
    \/ \E p \in Procs : RegisterAbort(p)

SpecRegister == InitRegister /\ [][NextRegister]_vars

\* ------------------------------------------------- the models' own operations
\* references given to Wallet.create_transaction
StoreRefs == {<<"TXN", 1>>, <<"TXN", 2>>, <<"TXN", 3>>}

WalletExists(wallet_id) == \E w \in wallet_rows : w.wallet_id = wallet_id

\* Wallet.create_transaction(**kwargs): Transaction.objects.create(wallet=self,
\* **kwargs), here with recipient_wallet and reference among the kwargs and
\* status left to its default
create_transaction(wallet_id, recipient_wallet, reference) ==
    /\ WalletExists(wallet_id)
    /\ recipient_wallet = NoWallet \/ WalletExists(recipient_wallet)
    /\ ~ReferenceExists(reference)
    /\ txns' = txns (+) SetToBag({Row(wallet_id, 1, "TRANSFER", "PENDING",
                                      reference, recipient_wallet)})
    /\ UNCHANGED <<balance, req, tx, nreq, users, wallet_rows, reg, call>>

\* on_delete=models.PROTECT on Transaction.wallet: a row owned by the wallet
\* stops the deletion with ProtectedError
Protected(wallet_id) == \E t \in BagToSet(txns) : t.wallet = wallet_id

\* on_delete=models.SET_NULL on Transaction.recipient_wallet: the rows that
\* name a deleted wallet as recipient are kept with the field set to NULL
SetNull(bag, gone) ==
    SetToBag({IF t.recipient_wallet \in gone
              THEN [t EXCEPT !.recipient_wallet = NoWallet]
              ELSE t : t \in BagToSet(bag)})

\* Wallet.delete()
WalletDelete(wallet_id) ==
    /\ WalletExists(wallet_id)
    /\ IF Protected(wallet_id)
       THEN UNCHANGED <<txns, wallet_rows>>
       ELSE /\ wallet_rows' = {w \in wallet_rows : w.wallet_id # wallet_id}
            /\ txns' = SetNull(txns, {wallet_id})
    /\ UNCHANGED <<balance, req, tx, nreq, users, reg, call>>

\* User.delete(): on_delete=models.CASCADE on Wallet.user takes the user's
\* wallet along, and with it what the wallet's deletion does
UserDelete(u) ==
    LET gone == {w.wallet_id : w \in {x \in wallet_rows : x.user = u}}
    IN  /\ u \in users
        /\ IF \E g \in gone : Protected(g)
           THEN UNCHANGED <<txns, wallet_rows, users>>
           ELSE /\ users' = users \ {u}
                /\ wallet_rows' = {w \in wallet_rows : w.user # u}
                /\ txns' = SetNull(txns, gone)
        /\ UNCHANGED <<balance, req, tx, nreq, reg, call>>

NextStore ==
    \/ \E w \in Wallets, r \in Wallets \cup {NoWallet}, ref \in StoreRefs :
          create_transaction(w, r, ref)
    \/ \E w \in Wallets : WalletDelete(w)
    \/ \E u \in UserIds : UserDelete(u)

SpecStore == Init /\ [][NextStore]_vars

\* ------------------------------------------------- the text of a reference
\* strings are sequences of code points
Chars(s) ==
    CASE s = "AIRTIME" -> <<65, 73, 82, 84, 73, 77, 69>>
      [] s = "DATA" -> <<68, 65, 84, 65>>
      [] s = "AIR" -> <<65, 73, 82>>
      [] s = "DAT" -> <<68, 65, 84>>
      [] s = "DEP" -> <<68, 69, 80>>
      [] s = "TXN" -> <<84, 88, 78>>

\* s[:n]
Slice(s, n) == SubSeq(s, 1, IF n < Len(s) THEN n ELSE Len(s))

\* str.upper() on ASCII text
upper(s) == [i \in 1..Len(s) |-> IF s[i] \in 97..122 THEN s[i] - 32 ELSE s[i]]

\* uuid.uuid4().hex: 32 lower-case hexadecimal digits, one text per seed
uuid4_hex(seed) == [i \in 1..32 |-> HexChar((seed + i * (2 * seed + 1)) % 16)]

\* f"{prefix}-{uuid.uuid4().hex[:8].upper()}"
generate_reference_text(prefix, hex) == prefix \o <<45>> \o upper(Slice(hex, 8))

\* create_deposit: "if not reference: reference = cls.generate_reference('DEP')";
\* None and '' are both the empty text here
create_deposit_reference(reference, hex) ==
    IF reference = <<>> THEN generate_reference_text(Chars("DEP"), hex)
    ELSE reference

\* a purchase that leaves the prefix at generate_reference's default, 'TXN'
create_vas_reference_DefaultPrefix(service_type, hex) ==
    generate_reference_text(Chars("TXN"), hex)

\* create_vas_transaction: cls.generate_reference(service_type[:3].upper())
create_vas_reference(service_type, hex) ==
    generate_reference_text(upper(Slice(Chars(service_type), 3)), hex)

\* references a caller may hand to create_deposit: none, "TEST", "dep-1", "DEP"
SuppliedRefs == {<<>>, <<84, 69, 83, 84>>, <<100, 101, 112, 45, 49>>, Chars("DEP")}

Seeds == 0..MaxSeed

CallCreateDeposit(reference, seed) ==
    /\ call' = [op |-> "create_deposit", service_type |-> "", supplied |-> reference,
                seed |-> seed,
                reference |-> create_deposit_reference(reference, uuid4_hex(seed))]
    /\ UNCHANGED <<wvars, users, wallet_rows, reg>>

CallCreateVas(service_type, seed) ==
    /\ call' = [op |-> "create_vas_transaction", service_type |-> service_type,
                supplied |-> <<>>, seed |-> seed,
                reference |-> create_vas_reference(service_type, uuid4_hex(seed))]
    /\ UNCHANGED <<wvars, users, wallet_rows, reg>>

NextReference ==
    \/ \E r \in SuppliedRefs, seed \in Seeds : CallCreateDeposit(r, seed)
    \/ \E t \in {"AIRTIME", "DATA"}, seed \in Seeds : CallCreateVas(t, seed)

SpecReference == Init /\ [][NextReference]_vars

TypeOK ==
    /\ balance \in [Wallets -> Int]
    /\ nreq \in 0..MaxReqs
    /\ BagCardinality(txns) <= MaxReqs
    /\ \A p \in Procs : req[p].code \in {0, 200, 400, 403, 404, 500}

\* ================================================================= claims
Rows == BagToSet(txns)

\* rows, counted with multiplicity, that carry the reference
RefCount(bag, r) ==
    BagCardinality([t \in {u \in BagToSet(bag) : u.reference = r} |-> bag[t]])

Debits(t) ==
    \/ t.transaction_type \in {"WITHDRAWAL", "AIRTIME", "DATA"}
    \/ t.transaction_type = "TRANSFER" /\ t.recipient_wallet # t.wallet

\* the signed effect of a row on its wallet
SignedEffect(t) ==
    IF t.status # "COMPLETED" THEN 0
    ELSE IF Debits(t) THEN 0 - t.amount ELSE t.amount

RECURSIVE SumEffects(_, _)
SumEffects(bag, S) ==
    IF S = {} THEN 0
    ELSE LET t == CHOOSE u \in S : TRUE
         IN  bag[t] * SignedEffect(t) + SumEffects(bag, S \ {t})

LedgerSum(w) == SumEffects(txns, {t \in Rows : t.wallet = w})

\* worker p takes the step that ends the block at the given place of a view
Leaves(p, pc) == req[p].pc = pc /\ req'[p].pc # pc

\* the rows a step adds
Added == txns' (-) txns

\* C1: every wallet's balance is the sum of the signed effects of its
\* COMPLETED transactions
C1_BalanceIsLedgerSum == \A w \in Wallets : balance[w] = LedgerSum(w)

\* C2: a step never adds a debiting row (PENDING or completed; the code
\* writes 'SUCCESS' for completed) whose amount, a positive one, is greater
\* than the wallet's persisted balance at that moment
C2_NoOverdraft ==
    [][\A t \in BagToSet(Added) :
          (Debits(t) /\ t.status \in {"PENDING", "COMPLETED", "SUCCESS"}
              /\ t.amount > 0)
              => t.amount <= balance[t.wallet]]_vars

\* C3: no two rows share a reference, and a deposit whose reference a row
\* already holds fails with the store's duplicate error, adds no row, changes
\* no balance and leaves nothing of its atomic block
C3_DuplicateReferenceRejected ==
    /\ [](\A t \in Rows : RefCount(txns, t.reference) = 1)
    /\ [][\A p \in Procs :
             (Leaves(p, "dep_insert") /\ RefCount(txns, req[p].ref) >= 1)
                 => /\ req'[p].pc = "done"
                    /\ req'[p].code = 400
                    /\ req'[p].exc = "IntegrityError"
                    /\ txns' = txns
                    /\ balance' = balance
                    /\ tx'[p] = NoTx
                    /\ RefCount(txns', req[p].ref) = 1]_vars

\* a deposit was applied once and a second one with its reference was refused
C3_Witness ==
    /\ \E p \in Procs : req[p].kind = "webhook" /\ req[p].exc = "IntegrityError"
    /\ BagCardinality(txns) = 1
    /\ \E t \in Rows : /\ t.transaction_type = "DEPOSIT"
                       /\ t.amount > 0
                       /\ balance[t.wallet] = t.amount

\* C4: a webhook whose signature does not verify is answered 403 at once and
\* touches neither the wallets nor the transactions
C4_UnverifiedWebhookForbidden ==
    [][\A p \in Procs :
          (~InFlight(p) /\ req'[p] # req[p] /\ req'[p].kind = "webhook"
              /\ req'[p].verify # "True")
              => /\ req'[p].pc = "done"
                 /\ req'[p].code = 403
                 /\ UNCHANGED <<balance, txns, tx>>]_vars

\* C5: a deposit of a positive amount that commits leaves exactly one
\* COMPLETED DEPOSIT row with its reference and the balance raised by the
\* amount
C5_DepositCompletes ==
    [][\A p \in Procs :
          (Leaves(p, "dep_save") /\ req'[p].code = 200 /\ req[p].amount > 0)
              => /\ Added = SetToBag({Row(req[p].wallet, req[p].amount, "DEPOSIT",
                                          "COMPLETED", req[p].ref, NoWallet)})
                 /\ balance' = [balance EXCEPT ![req[p].wallet] = @ + req[p].amount]]_vars

\* the two rows of a transfer of a from s to r
TransferPair(s, r, a, added) ==
    /\ BagCardinality(added) = 2
    /\ \E d, c \in BagToSet(added) :
          /\ d.wallet = s /\ c.wallet = r
          /\ d.amount = a /\ c.amount = a
          /\ d.transaction_type = "TRANSFER" /\ c.transaction_type = "TRANSFER"
          /\ d.status = "COMPLETED" /\ c.status = "COMPLETED"

\* C6: a step of a transfer adds both rows, with equal amounts, and moves
\* both balances, or adds no row and moves no balance; no other step adds a
\* TRANSFER row
C6_TransferAllOrNothing ==
    [][/\ \A p \in Procs :
             Leaves(p, "tr_create")
                 => \/ Added = EmptyBag /\ balance' = balance
                    \/ /\ TransferPair(req[p].wallet, req[p].recipient,
                                       req[p].amount, Added)
                       /\ balance' = [balance EXCEPT
                                         ![req[p].wallet] = @ - req[p].amount,
                                         ![req[p].recipient] = @ + req[p].amount]
       /\ (\A p \in Procs : ~Leaves(p, "tr_create"))
             => \A t \in BagToSet(Added) : t.transaction_type # "TRANSFER"]_vars

\* a transfer between two wallets, of an amount the sender holds, has failed
\* inside the service call, and the ledger holds no TRANSFER row
C6_Witness ==
    /\ \E p \in Procs : /\ req[p].kind = "transfer"
                        /\ req[p].pc = "done"
                        /\ req[p].exc = "AttributeError"
                        /\ req[p].recipient \in Wallets \ {req[p].wallet}
                        /\ req[p].amount <= req[p].snap
                        /\ req[p].snap = balance[req[p].wallet]
    /\ \A t \in Rows : t.transaction_type # "TRANSFER"

\* C7: when every worker has finished a withdrawal of the same amount A from
\* the same wallet, each having loaded the balance A, exactly one has
\* succeeded and the others were refused for insufficient funds
C7_ExactlyOneWithdrawalSucceeds ==
    (\E w \in Wallets, a \in 1..MaxAmount :
        \A p \in Procs : /\ req[p].kind = "withdraw" /\ req[p].pc = "done"
                         /\ req[p].wallet = w /\ req[p].amount = a
                         /\ req[p].snap = a)
        => /\ Cardinality({p \in Procs : req[p].code = 200}) = 1
           /\ \A p \in Procs : req[p].code \in {200, 400}

\* C8: a transfer of a between two different wallets, a being at most the
\* sender's balance, succeeds, moves a from the sender's balance to the
\* recipient's and adds the two COMPLETED TRANSFER rows
C8_TransferMovesAmount ==
    [][\A p \in Procs :
          (Leaves(p, "tr_create") /\ req[p].recipient \in Wallets
              /\ req[p].recipient # req[p].wallet
              /\ req[p].amount <= balance[req[p].wallet])
              => /\ req'[p].code = 200
                 /\ TransferPair(req[p].wallet, req[p].recipient, req[p].amount, Added)
                 /\ balance' = [balance EXCEPT
                                   ![req[p].wallet] = @ - req[p].amount,
                                   ![req[p].recipient] = @ + req[p].amount]]_vars

\* C9: createWithdrawal adds one PENDING WITHDRAWAL row and leaves the
\* balances when the amount is within the balance, and is refused for
\* insufficient funds, adding no row, when it is not
C9_CreateWithdrawal ==
    [][\A p \in Procs :
          Leaves(p, "wd_create")
              => /\ balance' = balance
                 /\ IF req[p].amount <= req[p].snap
                    THEN /\ BagCardinality(Added) = 1
                         /\ \A t \in BagToSet(Added) :
                               /\ t.wallet = req[p].wallet
                               /\ t.amount = req[p].amount
                               /\ t.transaction_type = "WITHDRAWAL"
                               /\ t.status = "PENDING"
                    ELSE /\ Added = EmptyBag
                         /\ req'[p].code = 400
                         /\ req'[p].exc = "ValueError"]_vars

\* C10: when a withdrawal within the balance has been answered with success,
\* its row is COMPLETED and the balance is lower by its amount; and a
\* withdrawal within the balance is answered with success or with the
\* provider's failure
C10_WithdrawalCompletes ==
    [][\A p \in Procs :
          (Leaves(p, "wd_create") /\ req'[p].pc = "done"
              /\ req[p].amount <= req[p].snap)
              => \/ /\ req'[p].code = 200
                    /\ \E t \in BagToSet(txns') :
                          /\ t.wallet = req[p].wallet
                          /\ t.amount = req[p].amount
                          /\ t.transaction_type = "WITHDRAWAL"
                          /\ t.status = "COMPLETED"
                    /\ balance' = [balance EXCEPT ![req[p].wallet] = @ - req[p].amount]
                 \/ /\ req'[p].code = 400
                    /\ balance' = balance]_vars

\* C11: a withdrawal within the balance that went past its creation and did
\* not succeed leaves its row FAILED, and leaves the balances as they were
C11_FailWithdrawal ==
    [][\A p \in Procs :
          (Leaves(p, "wd_create") /\ req'[p].pc = "done"
              /\ req[p].amount <= req[p].snap /\ req'[p].code # 200)
              => /\ \E t \in BagToSet(txns') :
                       /\ t.wallet = req[p].wallet
                       /\ t.amount = req[p].amount
                       /\ t.transaction_type = "WITHDRAWAL"
                       /\ t.status = "FAILED"
                 /\ balance' = balance]_vars

\* C12: no step of a correctly signed webhook whose amount is not positive
\* adds a row or changes a balance, and the webhook is not answered with
\* success
C12_NonPositiveDepositRefused ==
    [][\A p \in Procs :
          (req[p].kind = "webhook" /\ InFlight(p) /\ req[p].amount <= 0
              /\ req'[p] # req[p])
              => /\ txns' = txns
                 /\ balance' = balance
                 /\ req'[p].pc = "done" => req'[p].code # 200]_vars

\* C13: a transfer whose recipient is the sender's own wallet is answered 400
\* 'Cannot transfer to your own wallet' by the step that looks the recipient
\* up, and no step of such a request adds a row or changes a balance
C13_SelfTransferRejected ==
    [][\A p \in Procs :
          /\ (Leaves(p, "tr_create") /\ req[p].recipient = req[p].wallet)
                => /\ req'[p].pc = "done"
                   /\ req'[p].code = 400
                   /\ req'[p].body = "Cannot transfer to your own wallet"
                   /\ UNCHANGED <<balance, txns, tx>>
          /\ (req'[p] # req[p] /\ req'[p].kind = "transfer"
                /\ req'[p].recipient = req'[p].wallet)
                => UNCHANGED <<balance, txns, tx>>]_vars

\* a transfer of an amount the sender holds, to the sender's own wallet, was
\* refused as a self-transfer, the deposit that funded the wallet being the
\* only row
C13_Witness ==
    /\ \E p \in Procs : /\ req[p].kind = "transfer"
                        /\ req[p].pc = "done"
                        /\ req[p].code = 400
                        /\ req[p].body = "Cannot transfer to your own wallet"
                        /\ req[p].recipient = req[p].wallet
                        /\ req[p].amount >= 1
                        /\ req[p].amount <= balance[req[p].wallet]
    /\ BagCardinality(txns) = 1

\* C14: a purchase is at the provider call only after its sufficiency test
\* passed, writes its row only after the provider returned success, and when
\* the provider call is unsuccessful the request is answered 400 with no row
\* added and no balance changed; only a purchase past the provider's success
\* adds an AIRTIME or DATA row
C14_VasOrdering ==
    /\ [](\A p \in Procs :
            /\ req[p].pc = "vas_call"
                  => /\ BalanceLess(req[p].snap, req[p].akind, req[p].amount) = "False"
                     /\ req[p].success = ""
                     /\ ~tx[p].open
            /\ req[p].pc \in {"vas_insert", "vas_save"} => req[p].success = "True"
            /\ (req[p].kind \in {"AIRTIME", "DATA"} /\ tx[p].open)
                  => req[p].success = "True")
    /\ [][/\ \A p \in Procs :
                (Leaves(p, "vas_call") /\ req'[p].success = "False")
                    => /\ req'[p].pc = "done"
                       /\ req'[p].code = 400
                       /\ UNCHANGED <<balance, txns, tx>>
          /\ (\E t \in BagToSet(Added) : t.transaction_type \in {"AIRTIME", "DATA"})
                => \E p \in Procs : /\ Leaves(p, "vas_save")
                                    /\ req[p].success = "True"]_vars

\* a purchase the wallet could pay was refused by the provider and another
\* was carried out: the ledger holds the deposit and one purchase
C14_Witness ==
    /\ \E p \in Procs : /\ req[p].kind \in {"AIRTIME", "DATA"}
                        /\ req[p].pc = "done"
                        /\ req[p].success = "False"
                        /\ req[p].code = 400
    /\ \E p \in Procs : /\ req[p].kind \in {"AIRTIME", "DATA"}
                        /\ req[p].pc = "done"
                        /\ req[p].success = "True"
                        /\ req[p].code = 200
    /\ \E t \in Rows : t.transaction_type \in {"AIRTIME", "DATA"} /\ t.amount > 0
    /\ \E t \in Rows : t.transaction_type = "DEPOSIT"

\* C15: while a withdrawal is at the provider call its PENDING row is
\* persisted, and a withdrawal of a valid amount within the balance that has
\* been answered has left its row, PENDING or moved on by the provider's
\* result
C15_WithdrawalOrdering ==
    \A p \in Procs :
        /\ req[p].pc = "wd_call"
              => \E t \in Rows : /\ t.wallet = req[p].wallet
                                 /\ t.amount = req[p].amount
                                 /\ t.transaction_type = "WITHDRAWAL"
                                 /\ t.status = "PENDING"
        /\ (req[p].kind = "withdraw" /\ req[p].pc = "done"
              /\ AmountValid(req[p].amount) /\ req[p].amount <= req[p].snap)
              => \E t \in Rows : /\ t.wallet = req[p].wallet
                                 /\ t.amount = req[p].amount
                                 /\ t.transaction_type = "WITHDRAWAL"
                                 /\ t.status \in {"PENDING", "COMPLETED", "FAILED"}

C17_PreconditionsSideEffectFree ==
    [][\A p \in Procs :
          /\ (Leaves(p, "wh_get") /\ req[p].wallet \notin Wallets)
                => /\ req'[p].pc = "done"
                   /\ req'[p].code = 404
                   /\ UNCHANGED <<balance, txns, tx>>
          /\ (~InFlight(p) /\ req'[p] # req[p]
                /\ req'[p].kind \in {"AIRTIME", "DATA"})
                => /\ UNCHANGED <<balance, txns, tx>>
                   /\ req'[p].pc \in {"vas_call", "done"}
                   /\ req'[p].pc = "vas_call"
                         => req'[p].amount <= balance[req'[p].wallet]
                   /\ req'[p].body = "Insufficient balance"
                         => /\ req'[p].pc = "done"
                            /\ req'[p].code = 400
                            /\ req'[p].success = ""]_vars

\* a webhook for an unknown wallet and a purchase from an empty wallet were
\* both refused: no row exists and every balance is as at the start
C17_Witness ==
    /\ \E p \in Procs : /\ req[p].kind = "webhook"
                        /\ req[p].pc = "done"
                        /\ req[p].code = 404
                        /\ req[p].exc = "DoesNotExist"
    /\ \E p \in Procs : /\ req[p].kind \in {"AIRTIME", "DATA"}
                        /\ req[p].pc = "done"
                        /\ req[p].code = 400
                        /\ req[p].body = "Insufficient balance"
    /\ txns = EmptyBag
    /\ \A w \in Wallets : balance[w] = 0

\* C18: every answered request carries its transaction or one of the named
\* errors: no request ends in an exception no handler names, and none is
\* answered with the catch-all 'processing failed'
C18_NoUnhandledOutcome ==
    \A p \in Procs :
        req[p].pc = "done"
            => /\ req[p].code \in {200, 400, 403, 404}
               /\ req[p].body \notin {"Server Error", "Withdrawal processing failed",
                                      "Transfer processing failed"}

\* C19: no wallet's balance is ever below zero
C19_BalanceNonNegative == \A w \in Wallets : balance[w] >= 0

\* C20: the status of every row is one of the four statuses of the model
C20_StatusInChoices == \A t \in Rows : t.status \in StatusChoices

\* C21: a stored row, found again by its reference, keeps its status in
\* every step unless the status was PENDING and becomes one of the others
C21_TerminalStatusFinal ==
    [][\A t \in BagToSet(txns) :
          \E u \in BagToSet(txns') :
              /\ u.reference = t.reference
              /\ \/ u.status = t.status
                 \/ /\ t.status = "PENDING"
                    /\ u.status \in StatusChoices \ {"PENDING"}]_vars

\* two operations on the same wallet have committed one after the other, so
\* the row of the first was stored while the second was applied
C21_Witness ==
    \E t, u \in Rows :
        /\ t.wallet = u.wallet
        /\ t.reference # u.reference
        /\ t.status # "PENDING" /\ u.status # "PENDING"
        /\ \A p \in Procs : req[p].pc = "done" /\ req[p].code = 200

\* C23: a stored row, found again by its reference, keeps its amount, its
\* transaction_type and its wallet in every step
C23_RowFieldsImmutable ==
    [][\A t \in BagToSet(txns) :
          \E u \in BagToSet(txns') :
              /\ u.reference = t.reference
              /\ u.amount = t.amount
              /\ u.transaction_type = t.transaction_type
              /\ u.wallet = t.wallet]_vars

\* a deposit was stored and a purchase on the same wallet was applied after it
C23_Witness ==
    \E t, u \in Rows :
        /\ t.wallet = u.wallet
        /\ t.transaction_type = "DEPOSIT" /\ t.amount > 0
        /\ u.transaction_type \in {"AIRTIME", "DATA"} /\ u.amount = t.amount
        /\ balance[t.wallet] = 0

\* C22: every row a step stores has an amount above zero, the step that
\* commits a purchase never raises the wallet's balance and the step that
\* commits a deposit never lowers it
C22_AmountsPositive ==
    [][/\ \A t \in BagToSet(Added) : t.amount > 0
       /\ \A p \in Procs :
             /\ Leaves(p, "vas_save")
                   => balance'[req[p].wallet] <= balance[req[p].wallet]
             /\ Leaves(p, "dep_save")
                   => balance'[req[p].wallet] >= balance[req[p].wallet]]_vars

\* the sum of the amounts of the rows in S, each counted as often as stored
RECURSIVE SumAmounts(_, _)
SumAmounts(bag, S) ==
    IF S = {} THEN 0
    ELSE LET t == CHOOSE u \in S : TRUE
         IN  bag[t] * t.amount + SumAmounts(bag, S \ {t})

\* what the wallet's stored deposits, and its stored purchases, add up to
DepositTotal(w) ==
    SumAmounts(txns, {t \in Rows : t.wallet = w /\ t.transaction_type = "DEPOSIT"})
PurchaseTotal(w) ==
    SumAmounts(txns, {t \in Rows : t.wallet = w
                                     /\ t.transaction_type \in {"AIRTIME", "DATA"}})

\* C26: with amounts above zero only, the purchases stored for a wallet never
\* add up to more than its deposits: of two purchases of A against a balance
\* B, A <= B < 2A, at most one stores its row
C26_PurchasesSerialize ==
    \A w \in Wallets :
        (\A t \in Rows : t.amount > 0) => PurchaseTotal(w) <= DepositTotal(w)

\* C27: with amounts above zero only, every wallet's balance is what its
\* stored deposits add up to less what its stored purchases add up to: no
\* committed operation's change of the balance is overwritten by another's
C27_NoLostUpdate ==
    (\A t \in Rows : t.amount > 0)
        => \A w \in Wallets : balance[w] = DepositTotal(w) - PurchaseTotal(w)

\* C29: a purchase of an amount above zero for which the provider has
\* reported success, and which the database does not fail, ends answered 200
\* with its row stored for the wallet, its amount and its type, as completed
\* (the code writes 'SUCCESS' for completed)
C29_PaidPurchaseRecorded ==
    [][\A p \in Procs :
          (req[p].success = "True" /\ InFlight(p) /\ req'[p].pc = "done"
              /\ req[p].amount > 0 /\ req'[p].exc # "OperationalError")
              => /\ req'[p].code = 200
                 /\ \E t \in BagToSet(Added) :
                       /\ t.wallet = req[p].wallet
                       /\ t.amount = req[p].amount
                       /\ t.transaction_type = req[p].kind
                       /\ t.status \in {"COMPLETED", "SUCCESS"}]_vars

\* C30: the first attempt to store a purchase under a generated reference
\* that a row already holds does not end the purchase with the duplicate
\* error: another reference is generated and the insert tried again
C30_CollisionRetried ==
    [][\A p \in Procs :
          Leaves(p, "vas_insert")
              => ~(req'[p].pc = "done" /\ req'[p].exc = "IntegrityError")]_vars

\* C28: every transfer that is under way is eventually answered, whatever
\* other transfers, the opposite one between the same two wallets included,
\* are under way
C28_TransfersFinish ==
    \A p \in Procs :
        (req[p].kind = "transfer" /\ req[p].pc = "tr_create") ~> (req[p].pc = "done")

\* a transfer from one wallet to another and the opposite transfer have both
\* been through the service call and have both been answered
C28_Witness ==
    \E p, q \in Procs :
        /\ req[p].kind = "transfer" /\ req[q].kind = "transfer"
        /\ req[p].pc = "done" /\ req[q].pc = "done"
        /\ req[p].wallet # req[q].wallet
        /\ req[p].recipient = req[q].wallet /\ req[q].recipient = req[p].wallet
        /\ AmountValid(req[p].amount) /\ AmountValid(req[q].amount)

\* C25: every user has exactly one wallet and every wallet has a user that
\* exists and a balance of 0, in every state registration passes through, the
\* states after a registration has failed between its two inserts included
C25_OneWalletPerUser ==
    /\ \A u \in users : Cardinality({w \in wallet_rows : w.user = u}) = 1
    /\ \A w \in wallet_rows : w.user \in users /\ w.balance = 0

\* one user is registered with a wallet, and the registration of another has
\* failed after its user was inserted, on the wallet_id the first had drawn:
\* nothing of it is stored
C25_Witness ==
    /\ Cardinality(users) = 1
    /\ Cardinality(wallet_rows) = 1
    /\ \E p \in Procs : /\ reg[p].pc = "done"
                        /\ reg[p].stage = "wallet"
                        /\ reg[p].exc = "IntegrityError"
                        /\ reg[p].user \notin users

\* C24: a wallet that a stored row names, as its wallet or as its
\* recipient_wallet, is still stored after every step, and so is every row
\* that names it, as it was
C24_ReferencedWalletKept ==
    [][\A w \in wallet_rows :
          LET naming == {t \in BagToSet(txns) :
                            \/ t.wallet = w.wallet_id
                            \/ t.recipient_wallet = w.wallet_id}
          IN  naming # {}
                  => /\ w \in wallet_rows'
                     /\ \A t \in naming : t \in BagToSet(txns')]_vars

\* C31: a step that changes a balance is the commit of a deposit or of a
\* purchase, changes the balance of that operation's wallet only, and stores
\* the operation's row in the same step; every other step leaves every
\* balance as it was
C31_BalanceChangesOnlyWithRow ==
    [][balance' # balance
          => \E p \in Procs :
                /\ Leaves(p, "dep_save") \/ Leaves(p, "vas_save")
                /\ req'[p].code = 200
                /\ \A w \in Wallets \ {req[p].wallet} : balance'[w] = balance[w]
                /\ \E t \in BagToSet(Added) : t.wallet = req[p].wallet]_vars

\* a deposit has raised a balance, and a wallet read and a refused webhook
\* have been answered
C31_Witness ==
    /\ \E w \in Wallets : balance[w] > 0 /\ \E t \in Rows : t.wallet = w
    /\ \E p \in Procs : req[p].pc = "done" /\ req[p].code = 403
    /\ \E p \in Procs : req[p].pc = "done" /\ req[p].kind = "wallet"

\* C32: every purchase and every withdrawal that is under way eventually
\* finishes, whether or not the provider answers
C32_ProviderCallBounded ==
    \A p \in Procs :
        (req[p].kind \in {"AIRTIME", "DATA", "withdraw"} /\ InFlight(p))
            ~> (req[p].pc = "done")

\* C33: a webhook whose signature verifies but whose body fails json.loads or
\* the serializer is answered at once with 400, and the step stores no row,
\* opens no atomic block and changes no balance
C33_InvalidBodyRefused ==
    [][\A p \in Procs, b \in Bodies :
          (/\ ~b.valid
           /\ WebhookReceive(p, b, HmacHexdigest(WebhookSecret, RawBody(b))))
              => /\ req'[p].verify = "True"
                 /\ req'[p].pc = "done"
                 /\ req'[p].code = 400
                 /\ req'[p].exc = "ValidationError"
                 /\ UNCHANGED <<balance, txns, tx>>]_vars

C33_Witness ==
    \E p \in Procs :
        /\ req[p].kind = "webhook" /\ req[p].pc = "done"
        /\ req[p].verify = "True" /\ req[p].code = 400
        /\ req[p].exc = "ValidationError"
        /\ txns = EmptyBag
        /\ \A w \in Wallets : balance[w] = 0

\* C34: a reference made for a deposit that came without one is "DEP", a
\* hyphen and at least 8 letters or digits, one made for an AIRTIME purchase
\* starts with "AIR" and one for a DATA purchase with "DAT" in the same shape,
\* and a deposit that came with a reference keeps it as it is
IsAlnum(c) == c \in (48..57) \cup (65..90) \cup (97..122)

Tagged(r, tag) ==
    /\ Len(r) >= 3 + 1 + 8
    /\ SubSeq(r, 1, 3) = Chars(tag)
    /\ r[4] = 45
    /\ \A i \in 5..Len(r) : IsAlnum(r[i])

C34_ReferenceTags ==
    /\ (call.op = "create_deposit" /\ call.supplied = <<>>)
          => Tagged(call.reference, "DEP")
    /\ (call.op = "create_deposit" /\ call.supplied # <<>>)
          => call.reference = call.supplied
    /\ \A t \in {"AIRTIME", "DATA"} :
          (call.op = "create_vas_transaction" /\ call.service_type = t)
              => /\ Tagged(call.reference, IF t = "AIRTIME" THEN "AIR" ELSE "DAT")
                 /\ SubSeq(call.reference, 1, 3) = Chars(ServicePrefix(t))

C34_Witness ==
    /\ call.op = "create_vas_transaction"
    /\ call.service_type = "DATA"
    /\ \E i \in 5..Len(call.reference) : call.reference[i] \in 65..70
    /\ \E i \in 5..Len(call.reference) : call.reference[i] \in 48..57

====
